---- MODULE Spec2Model ----
(***************************************************************************)
(* Model of scripts/verify-gm-blob.py: recovery of the blob-autotile       *)
(* bitmask of every 16x16 cell of an autotile sheet by comparing the cell  *)
(* with the full-neighbour reference cell at (col=1,row=0).                *)
(*                                                                         *)
(* Numbers.  The script computes region scores as Python floats            *)
(* (total / count), IEEE-754 doubles.  A score is named here by the        *)
(* integer u = total*Scale/count and stands for the double nearest to      *)
(* u/Scale, which is what total / count gives.  Scale = 1920 is a multiple *)
(* of 2*64, 2*30 and 2*16, so every score of a 64-, 30- or 16-pixel region *)
(* has such a name; values stay below 2^31.  A score over 64 or 16 pixels  *)
(* is an exact double, a score over 30 pixels is not (1/30, 2/30, 3/30 are *)
(* the doubles 0.03333333333333333, 0.06666666666666667, 0.1), and the     *)
(* gaps of the gap loop are differences of those doubles: Double(u) is the *)
(* double of u, FSub the correctly rounded subtraction of two doubles and  *)
(* FLess their order, so that two gaps that would tie as fractions compare *)
(* as they do in the script.  A threshold (a + b) / 2 is named by the      *)
(* integer (ua + ub) / 2; the double the script holds lies within 2^-20    *)
(* units of it, and it is only compared with scores, which are whole       *)
(* units.                                                                  *)
(***************************************************************************)
EXTENDS Integers, Sequences, FiniteSets, TLC

\* ------------------------------------------------------------------------
\* Program constants
\* ------------------------------------------------------------------------
TILE == 16
HALF == 8
COLS == 12
ROWS == 4

\* Fixed-point unit of region scores and thresholds (see header).
Scale == 1920

\* entry["mask"] = None between the first pass and the classification.
None == -2

\* A local name of analyze_sheet that has not been assigned yet.
Unbound == -3

\* Alpha below which a pixel counts as transparent.
ALPHA_MIN == 128

\* Score of a transparent pixel.
PENALTY == 10000

\* Threshold when no sample exists.
DEFAULT_THRESH == 100

\* Variant of the constant with 73 in the place of 74.
expected_47_with_73 ==
    {0, 1, 2, 3, 4, 5, 6, 7, 8, 9, 10, 11, 12, 13, 14, 15,
     19, 23, 27, 31, 37, 39, 45, 47, 55, 63, 73, 75, 78, 79, 91,
     95, 111, 127, 140, 141, 142, 143, 159, 173, 175, 191, 206,
     207, 223, 239, 255}

expected_47 ==
    {0, 1, 2, 3, 4, 5, 6, 7, 8, 9, 10, 11, 12, 13, 14, 15,
     19, 23, 27, 31, 37, 39, 45, 47, 55, 63, 74, 75, 78, 79, 91,
     95, 111, 127, 140, 141, 142, 143, 159, 173, 175, 191, 206,
     207, 223, 239, 255}

\* ------------------------------------------------------------------------
\* Bounds of the model
\* ------------------------------------------------------------------------
\* Largest number of sheet paths on the command line.
MaxSheets == 2
\* Longest edge pool handed to find_threshold in SpecThreshold.
MaxPool == 3
\* Longest corner pool handed to find_threshold in SpecThreshold.
MaxCorner == 2
\* Largest sample of such a pool.
MaxDiff == 3

\* ------------------------------------------------------------------------
\* Input sheets.  A sheet is described cell by cell; a cell is either
\* uniformly transparent ("clear", alpha a) or painted: the eight regions
\* N=1 W=2 E=4 S=8 NW=16 NE=32 SW=64 SE=128 of pattern p are drawn in the
\* reference colour when their bit is set and as `void` (another colour, or
\* a hole of alpha 0) when it is clear; the 4x4 corner blocks are drawn over
\* the 3px edge bands; the core (everything else) is drawn as `core`.
\* ------------------------------------------------------------------------
RefColour == <<40, 120, 60>>
AltColour == <<90, 150, 80>>

Clear(a) == [kind |-> "clear", p |-> 0, void |-> "hole", core |-> "ref", a |-> a]
Paint(p, void, core) == [kind |-> "paint", p |-> p, void |-> void, core |-> core, a |-> 255]

HasBit(p, b) == (p \div b) % 2 = 1

\* The region bit that owns pixel (x,y) of a painted cell; 0 for the core.
PaintZone(x, y) ==
    IF x < 4 /\ y < 4 THEN 16
    ELSE IF x >= 12 /\ y < 4 THEN 32
    ELSE IF x < 4 /\ y >= 12 THEN 64
    ELSE IF x >= 12 /\ y >= 12 THEN 128
    ELSE IF y < 3 THEN 1
    ELSE IF x < 3 THEN 2
    ELSE IF x >= 13 THEN 4
    ELSE IF y >= 13 THEN 8
    ELSE 0

Opaque(c) == <<c[1], c[2], c[3], 255>>

\* RGBA of pixel (x,y) of a cell described by d.
CellPixel(d, x, y) ==
    IF d.kind = "clear" THEN <<0, 0, 0, d.a>>
    ELSE LET z == PaintZone(x, y) IN
         IF z = 0 THEN (IF d.core = "ref" THEN Opaque(RefColour) ELSE Opaque(AltColour))
         ELSE IF HasBit(d.p, z) THEN Opaque(RefColour)
         ELSE IF d.void = "alt" THEN Opaque(AltColour)
         ELSE <<0, 0, 0, 0>>

NCELLS == COLS * ROWS
CellIds == 0 .. (NCELLS - 1)

\* The 47 canonical masks laid out row-major, 255 at (1,0).
PlantedMasks ==
    <<0, 255, 1, 2, 3, 4, 5, 6, 7, 8, 9, 10,
      11, 12, 13, 14, 15, 19, 23, 27, 31, 37, 39, 45,
      47, 55, 63, 74, 75, 78, 79, 91, 95, 111, 127, 140,
      141, 142, 143, 159, 173, 175, 191, 206, 207, 223, 239>>

\* The decoded images, pixels[X][Y] = (r, g, b, a), each 192 x 64.  Every
\* image is spelled out as one table (f @@ <<>> is f, listed explicitly).

\* The 47 canonical masks, one per cell, and the spare cell.
PlantedImage ==
    [X \in 0 .. (COLS * TILE - 1) |->
      [Y \in 0 .. (ROWS * TILE - 1) |->
        LET c == (Y \div TILE) * COLS + (X \div TILE) IN
        CellPixel(IF c = NCELLS - 1 THEN Clear(0) ELSE Paint(PlantedMasks[c + 1], "alt", "ref"),
                  X % TILE, Y % TILE)] @@ <<>>] @@ <<>>

\* The planted sheet with the spare slot filled by a second mask-0 cell.
DupImage ==
    [X \in 0 .. (COLS * TILE - 1) |->
      [Y \in 0 .. (ROWS * TILE - 1) |->
        LET c == (Y \div TILE) * COLS + (X \div TILE) IN
        CellPixel(IF c = NCELLS - 1 THEN Paint(0, "alt", "ref")
            ELSE Paint(PlantedMasks[c + 1], "alt", "ref"),
                  X % TILE, Y % TILE)] @@ <<>>] @@ <<>>

\* The planted sheet with the reference slot (1,0) left transparent.
NoRefImage ==
    [X \in 0 .. (COLS * TILE - 1) |->
      [Y \in 0 .. (ROWS * TILE - 1) |->
        LET c == (Y \div TILE) * COLS + (X \div TILE) IN
        CellPixel(IF c = 1 \/ c = NCELLS - 1 THEN Clear(0)
            ELSE Paint(PlantedMasks[c + 1], "alt", "ref"),
                  X % TILE, Y % TILE)] @@ <<>>] @@ <<>>

\* Arbitrary (also non-canonical) patterns, holes, foreign cores, two
\* transparent cells, one of them with alpha 64, and at (0,0) a cell that
\* equals the reference except for a hole along its North edge.
ZooImage ==
    [X \in 0 .. (COLS * TILE - 1) |->
      [Y \in 0 .. (ROWS * TILE - 1) |->
        LET c == (Y \div TILE) * COLS + (X \div TILE) IN
        CellPixel(IF c = 1 THEN Paint(255, "alt", "ref")
            ELSE IF c = 0 THEN Paint(254, "hole", "ref")
            ELSE IF c = 30 THEN Clear(0)
            ELSE IF c = NCELLS - 1 THEN Clear(64)
            ELSE Paint(((c * 53) + 7) % 256,
                       IF c % 3 = 0 THEN "hole" ELSE "alt",
                       IF c % 5 = 0 THEN "alt" ELSE "ref"),
                  X % TILE, Y % TILE)] @@ <<>>] @@ <<>>

\* Only the reference cell is drawn.
RefOnlyImage ==
    [X \in 0 .. (COLS * TILE - 1) |->
      [Y \in 0 .. (ROWS * TILE - 1) |->
        LET c == (Y \div TILE) * COLS + (X \div TILE) IN
        CellPixel(IF c = 1 THEN Paint(255, "alt", "ref") ELSE Clear(0),
                  X % TILE, Y % TILE)] @@ <<>>] @@ <<>>

\* Nothing is drawn.
BlankImage ==
    [X \in 0 .. (COLS * TILE - 1) |->
      [Y \in 0 .. (ROWS * TILE - 1) |->
        LET c == (Y \div TILE) * COLS + (X \div TILE) IN
        CellPixel(Clear(0),
                  X % TILE, Y % TILE)] @@ <<>>] @@ <<>>

\* The reference cell and one cell that differs from it in the core only.
CoreImage ==
    [X \in 0 .. (COLS * TILE - 1) |->
      [Y \in 0 .. (ROWS * TILE - 1) |->
        LET c == (Y \div TILE) * COLS + (X \div TILE) IN
        CellPixel(IF c = 1 THEN Paint(255, "alt", "ref")
            ELSE IF c = 2 THEN Paint(255, "alt", "alt")
            ELSE Clear(0),
                  X % TILE, Y % TILE)] @@ <<>>] @@ <<>>

\* The region bit that owns pixel (x,y) when the 3px edge bands are drawn
\* over the corner blocks; 0 for the core.
EdgeFirstZone(x, y) ==
    IF y < 3 /\ x >= 3 /\ x < 13 THEN 1
    ELSE IF y >= 13 /\ x >= 3 /\ x < 13 THEN 8
    ELSE IF x < 3 /\ y >= 3 /\ y < 13 THEN 2
    ELSE IF x >= 13 /\ y >= 3 /\ y < 13 THEN 4
    ELSE PaintZone(x, y)

\* RGBA of pixel (x,y) of a painted cell of pattern p drawn that way, the
\* absent regions in the other colour.
EdgeFirstPixel(p, x, y) ==
    LET z == EdgeFirstZone(x, y) IN
    IF z = 0 \/ HasBit(p, z) THEN Opaque(RefColour) ELSE Opaque(AltColour)

\* The 47 canonical masks in another arrangement: the spare cell at (0,0),
\* 255 at (1,0), the others in descending order; edge bands over corners.
PlantedBImage ==
    [X \in 0 .. (COLS * TILE - 1) |->
      [Y \in 0 .. (ROWS * TILE - 1) |->
        LET c == (Y \div TILE) * COLS + (X \div TILE) IN
        IF c = 0 THEN <<0, 0, 0, 0>>
        ELSE EdgeFirstPixel(IF c = 1 THEN 255
                            ELSE IF c = NCELLS - 1 THEN 0
                            ELSE PlantedMasks[NCELLS + 1 - c],
                            X % TILE, Y % TILE)] @@ <<>>] @@ <<>>

\* The reference slot transparent, every other cell one flat colour.
FlatImage ==
    [X \in 0 .. (COLS * TILE - 1) |->
      [Y \in 0 .. (ROWS * TILE - 1) |->
        LET c == (Y \div TILE) * COLS + (X \div TILE) IN
        IF c = 1 THEN <<0, 0, 0, 0>> ELSE Opaque(AltColour)] @@ <<>>] @@ <<>>

\* The reference cell and one cell that differs from it in the single
\* pixel (3,0).
DotImage ==
    [X \in 0 .. (COLS * TILE - 1) |->
      [Y \in 0 .. (ROWS * TILE - 1) |->
        LET c == (Y \div TILE) * COLS + (X \div TILE) IN
        IF c = 1 THEN Opaque(RefColour)
        ELSE IF c = 2 THEN (IF X % TILE = 3 /\ Y % TILE = 0
                            THEN Opaque(AltColour) ELSE Opaque(RefColour))
        ELSE <<0, 0, 0, 0>>] @@ <<>>] @@ <<>>

\* The reference cell and one cell that differs from it by one colour step
\* in one pixel of the North strip, by two in one pixel of the West strip
\* and by three in one pixel of the East strip: edge scores 1/30, 2/30, 3/30.
TieImage ==
    [X \in 0 .. (COLS * TILE - 1) |->
      [Y \in 0 .. (ROWS * TILE - 1) |->
        LET c == (Y \div TILE) * COLS + (X \div TILE) IN
        IF c = 1 THEN Opaque(RefColour)
        ELSE IF c = 2
        THEN (IF X % TILE = 6 /\ Y % TILE = 1
              THEN Opaque(<<RefColour[1] + 1, RefColour[2], RefColour[3]>>)
              ELSE IF X % TILE = 1 /\ Y % TILE = 6
              THEN Opaque(<<RefColour[1] + 1, RefColour[2] + 1, RefColour[3]>>)
              ELSE IF X % TILE = 14 /\ Y % TILE = 6
              THEN Opaque(<<RefColour[1] + 1, RefColour[2] + 1, RefColour[3] + 1>>)
              ELSE Opaque(RefColour))
        ELSE <<0, 0, 0, 0>>] @@ <<>>] @@ <<>>

DefaultPath == "public/assets/tilesets/me-autotile-01.png"

\* The files of the run's file system; any other path cannot be opened.
Files == {"planted", "dup", "noref", "zoo", "refonly", "blank", "core", "plantedB", "flat",
          "dot", "tie"}

Readable(p) == p \in Files

\* img.load() of the image at path p.
Load(p) ==
    IF p = "planted" THEN PlantedImage
    ELSE IF p = "dup" THEN DupImage
    ELSE IF p = "noref" THEN NoRefImage
    ELSE IF p = "zoo" THEN ZooImage
    ELSE IF p = "refonly" THEN RefOnlyImage
    ELSE IF p = "blank" THEN BlankImage
    ELSE IF p = "plantedB" THEN PlantedBImage
    ELSE IF p = "flat" THEN FlatImage
    ELSE IF p = "dot" THEN DotImage
    ELSE IF p = "tie" THEN TieImage
    ELSE CoreImage

\* ------------------------------------------------------------------------
\* Pure helpers of analyze_sheet
\* ------------------------------------------------------------------------
get_cell(pixels, col, row) ==
    [idx \in 0 .. (TILE * TILE - 1) |->
        pixels[col * TILE + (idx % TILE)][row * TILE + (idx \div TILE)]]

\* Variant of the transparency test that takes alpha 0 only.
AllZeroAlpha(cell) == \A idx \in DOMAIN cell : cell[idx][4] = 0

\* all(p[3] < 128 for p in cell)
AllTransparent(cell) == \A idx \in DOMAIN cell : cell[idx][4] < ALPHA_MIN

RefRgb(cell) == [idx \in DOMAIN cell |-> <<cell[idx][1], cell[idx][2], cell[idx][3]>>]

Sq(v) == v * v

pixel_diff(p1, p2) == Sq(p1[1] - p2[1]) + Sq(p1[2] - p2[2]) + Sq(p1[3] - p2[3])

\* What one pixel adds to `total`: 10000 when it is transparent, else its
\* squared distance from the reference pixel at the same offset.
PixelTerm(cell_pixels, ref, idx) ==
    IF cell_pixels[idx][4] < ALPHA_MIN THEN PENALTY
    ELSE pixel_diff(cell_pixels[idx], ref[idx])

\* The `total` accumulated by the double loop (dy outer, dx inner) over the
\* w-wide block at (xs,ys), for its pixels number lo .. hi-1 in loop order.
\* The sum is split in halves: the terms are integers, so the order of the
\* additions does not change it.
RECURSIVE BlockTotal(_, _, _, _, _, _, _)
BlockTotal(cell_pixels, ref, xs, ys, w, lo, hi) ==
    IF hi <= lo THEN 0
    ELSE IF hi = lo + 1
    THEN PixelTerm(cell_pixels, ref, (ys + (lo \div w)) * TILE + (xs + (lo % w)))
    ELSE BlockTotal(cell_pixels, ref, xs, ys, w, lo, (lo + hi) \div 2)
         + BlockTotal(cell_pixels, ref, xs, ys, w, (lo + hi) \div 2, hi)

\* total / count in units of 1/Scale (the integer part and the fraction are
\* scaled apart, so that no intermediate value leaves 32 bits).
Ratio(total, count) ==
    (total \div count) * Scale + (((total % count) * Scale) \div count)

\* total / count if count > 0 else 0
sub_region_diff(cell_pixels, ref, x_start, y_start, x_size, y_size) ==
    LET count == x_size * y_size IN
    IF count > 0
    THEN Ratio(BlockTotal(cell_pixels, ref, x_start, y_start, x_size, 0, count), count)
    ELSE 0

quadrant_diff(cell_pixels, ref, qx, qy) ==
    Ratio(BlockTotal(cell_pixels, ref, qx, qy, HALF, 0, HALF * HALF), HALF * HALF)

\* sorted(s) of a list of numbers.
Sorted(s) == SortSeq(s, LAMBDA a, b : a < b)

\* (d for d in s if d > 0)
Positive(s) == SelectSeq(s, LAMBDA d : d > 0)

\* s[k] of a Python list, k >= -len(s); the caller checks the list is not empty.
PyAt(s, k) == IF k < 0 THEN s[Len(s) + k + 1] ELSE s[k + 1]

\* ------------------------------------------------------------------------
\* Python floats.  A non-negative double is <<hi, lo, e>>: the 53-bit
\* significand hi * 2^27 + lo, 2^25 <= hi < 2^26, 0 <= lo < 2^27, and the
\* exponent e of its last bit, value (hi * 2^27 + lo) * 2^e; zero is
\* <<0, 0, 0>>.  The significand is held in two parts because a number of
\* the model has 32 bits.  Rounding is to nearest, ties to even.
\* ------------------------------------------------------------------------
\* Base of the parts of a significand and of a wide integer.
Limb == 134217728

Pow2Table ==
    << 1, 2, 4, 8, 16, 32, 64, 128, 256, 512, 1024, 2048, 4096, 8192, 16384,
       32768, 65536, 131072, 262144, 524288, 1048576, 2097152, 4194304,
       8388608, 16777216, 33554432, 67108864, 134217728, 268435456,
       536870912, 1073741824 >>

\* 2^n, 0 <= n <= 30
Pow2(n) == Pow2Table[n + 1]

\* Number of bits of v, 0 <= v < 2^30.
BitLen(v) == CHOOSE n \in 0 .. 30 : v < Pow2(n) /\ (n = 0 \/ v >= Pow2(n - 1))

\* The int 0 that max_gap starts from, and the float 0.0.
FZero == <<0, 0, 0>>

\* <<(r * 2^k) div c, (r * 2^k) mod c>> for 0 <= r < c < 2^11, 0 <= k <= 38
\* and a quotient below 2^31, in two steps of at most 19 bits.
LongDiv(r, k, c) ==
    LET a  == IF k > 19 THEN 19 ELSE k
        n1 == r * Pow2(a)
        n2 == (n1 % c) * Pow2(k - a)
    IN <<(n1 \div c) * Pow2(k - a) + (n2 \div c), n2 % c>>

\* The double one step of the last bit above <<hi, lo, e>>.
FInc(hi, lo, e) ==
    IF lo + 1 < Limb THEN <<hi, lo + 1, e>>
    ELSE IF hi + 1 < Pow2(26) THEN <<hi + 1, 0, e>>
    ELSE <<Pow2(25), 0, e + 1>>

\* The double of the score named u: total / count, where total / count is
\* u / Scale as a fraction.  E is the exponent of the leading bit, hi the
\* first 26 bits of the quotient, lo the next 27, and the remainder after
\* them decides the rounding.
Double(u) ==
    IF u = 0 THEN FZero
    ELSE LET q0 == u \div Scale
             E  == IF q0 > 0 THEN BitLen(q0) - 1
                   ELSE - (CHOOSE s \in 1 .. 11 :
                              u * Pow2(s) >= Scale /\ u * Pow2(s - 1) < Scale)
             h  == LongDiv(u % Scale, 25 - E, Scale)
             l  == LongDiv(h[2], 27, Scale)
             hi == IF q0 > 0 THEN q0 * Pow2(25 - E) + h[1] ELSE h[1]
         IN IF 2 * l[2] > Scale \/ (2 * l[2] = Scale /\ l[1] % 2 = 1)
            THEN FInc(hi, l[1], E - 52) ELSE <<hi, l[1], E - 52>>

\* Integers of up to 108 bits, four parts of 27 bits, lowest part first.
ShlBits(z, b) ==
    LET cut == Pow2(27 - b)
        up  == Pow2(b)
    IN << (z[1] % cut) * up,
          (z[2] % cut) * up + (z[1] \div cut),
          (z[3] % cut) * up + (z[2] \div cut),
          (z[4] % cut) * up + (z[3] \div cut) >>

ShlWords(z, w) ==
    IF w = 0 THEN z
    ELSE IF w = 1 THEN <<0, z[1], z[2], z[3]>>
    ELSE IF w = 2 THEN <<0, 0, z[1], z[2]>>
    ELSE <<0, 0, 0, z[1]>>

\* z * 2^d
BigShl(z, d) == ShlWords(ShlBits(z, d % 27), d \div 27)

ShrWords(z, w) ==
    IF w = 0 THEN z
    ELSE IF w = 1 THEN <<z[2], z[3], z[4], 0>>
    ELSE IF w = 2 THEN <<z[3], z[4], 0, 0>>
    ELSE <<z[4], 0, 0, 0>>

ShrBits(z, b) ==
    LET cut == Pow2(b)
        up  == Pow2(27 - b)
    IN << (z[1] \div cut) + (z[2] % cut) * up,
          (z[2] \div cut) + (z[3] % cut) * up,
          (z[3] \div cut) + (z[4] % cut) * up,
          z[4] \div cut >>

\* z div 2^s
BigShr(z, s) == ShrBits(ShrWords(z, s \div 27), s % 27)

\* a - b for a >= b
BigSub(a, b) ==
    LET d1 == a[1] - b[1]
        b1 == IF d1 < 0 THEN 1 ELSE 0
        d2 == a[2] - b[2] - b1
        b2 == IF d2 < 0 THEN 1 ELSE 0
        d3 == a[3] - b[3] - b2
        b3 == IF d3 < 0 THEN 1 ELSE 0
    IN <<d1 + b1 * Limb, d2 + b2 * Limb, d3 + b3 * Limb, a[4] - b[4] - b3>>

BigLess(a, b) ==
    \E j \in 1 .. 4 : a[j] < b[j] /\ \A k \in (j + 1) .. 4 : a[k] = b[k]

BigBitLen(z) ==
    IF z[4] > 0 THEN 81 + BitLen(z[4])
    ELSE IF z[3] > 0 THEN 54 + BitLen(z[3])
    ELSE IF z[2] > 0 THEN 27 + BitLen(z[2])
    ELSE BitLen(z[1])

\* x - y of two doubles x >= y >= 0.  A y more than 54 binary places below
\* x is under a quarter of the last bit of x and leaves x; otherwise the
\* difference is formed exactly as the integer z in units of the last bit
\* of y and rounded to 53 bits.
FSub(x, y) ==
    IF y = FZero THEN x
    ELSE IF x[3] - y[3] >= 55 THEN x
    ELSE LET z == BigSub(BigShl(<<x[2], x[1], 0, 0>>, x[3] - y[3]), <<y[2], y[1], 0, 0>>)
             L == BigBitLen(z)
         IN IF L = 0 THEN FZero
            ELSE IF L <= 53
            THEN LET m == BigShl(z, 53 - L) IN <<m[2], m[1], y[3] - (53 - L)>>
            ELSE LET q == BigShr(z, L - 53)
                     r == BigSub(z, BigShl(q, L - 53))
                     h == BigShl(<<1, 0, 0, 0>>, L - 54)
                 IN IF BigLess(h, r) \/ (r = h /\ q[1] % 2 = 1)
                    THEN FInc(q[2], q[1], y[3] + (L - 53))
                    ELSE <<q[2], q[1], y[3] + (L - 53)>>

\* x < y of two doubles x, y >= 0
FLess(x, y) ==
    IF y = FZero THEN FALSE
    ELSE IF x = FZero THEN TRUE
    ELSE x[3] < y[3]
         \/ (x[3] = y[3] /\ (x[1] < y[1] \/ (x[1] = y[1] /\ x[2] < y[2])))

\* Variant of the gap test that also takes a gap equal to the widest so far.
WiderOrEqual(gap, max_gap) == ~FLess(gap, max_gap)

\* gap > max_gap, on the doubles gap and max_gap
Wider(gap, max_gap) == FLess(max_gap, gap)

\* gap = sorted_d[i] - sorted_d[i-1], the double
GapAt(sorted_d, i) == FSub(Double(PyAt(sorted_d, i)), Double(PyAt(sorted_d, i - 1)))

\* One iteration of the gap loop at index i, on st = <<max_gap, gap_idx>>;
\* max_gap is a double.
GapStep(sorted_d, st, i) ==
    LET gap == GapAt(sorted_d, i) IN
    IF Wider(gap, st[1]) THEN <<gap, i>> ELSE st

\* The iterations lo .. hi-1 of the gap loop, in order, started on st.
RECURSIVE GapLoop(_, _, _, _)
GapLoop(sorted_d, st, lo, hi) ==
    IF hi <= lo THEN st
    ELSE IF hi = lo + 1 THEN GapStep(sorted_d, st, lo)
    ELSE LET half == GapLoop(sorted_d, st, lo, (lo + hi) \div 2) IN
         \* (the test only makes the first half run before the second starts)
         IF half[2] >= 0 THEN GapLoop(sorted_d, half, (lo + hi) \div 2, hi) ELSE half

\* max_gap = 0; gap_idx = 0; for i in range(1, len(sorted_d)): ...
\* The result is the final gap_idx.
GapScan(sorted_d) == GapLoop(sorted_d, <<FZero, 0>>, 1, Len(sorted_d))[2]

\* find_threshold(diffs, label): the threshold, the two values printed as
\* the gap, and the exception raised by the print when diffs is empty.  The
\* threshold is named by the midpoint of the two names (see header).
find_threshold(diffs) ==
    LET sorted_d == Sorted(diffs)
        gap_idx  == GapScan(sorted_d)
        thresh   == IF gap_idx > 0
                    THEN (PyAt(sorted_d, gap_idx - 1) + PyAt(sorted_d, gap_idx)) \div 2
                    ELSE IF sorted_d # <<>> THEN PyAt(sorted_d, -1) \div 2
                    ELSE DEFAULT_THRESH * Scale
    IN IF sorted_d = <<>>
       THEN [raised |-> "IndexError", thresh |-> thresh, below |-> 0, above |-> 0]
       ELSE [raised |-> "", thresh |-> thresh,
             below |-> PyAt(sorted_d, gap_idx - 1), above |-> PyAt(sorted_d, gap_idx)]

\* Variant of the edge test that also takes a diff equal to the threshold.
EdgeAtMost(diff, edge_thresh) == diff <= edge_thresh

\* Variant of the edge test with the comparison turned round.
EdgeInverted(diff, edge_thresh) == diff > edge_thresh

\* n_diff < edge_thresh
EdgePresent(diff, edge_thresh) == diff < edge_thresh

\* Variant of the diagonal test that looks at the corner alone.
DiagUngated(c1, c2, diff, corner_thresh) == diff < corner_thresh

\* if n and w and nw_diff < corner_thresh
DiagPresent(c1, c2, diff, corner_thresh) == c1 /\ c2 /\ diff < corner_thresh

Bit(b, v) == IF b THEN v ELSE 0

\* Variant of the mask in which each of the eight bits follows its own
\* region alone.
ClassifyIndependent(edges, corners, et, ct) ==
    Bit(edges[1] < et, 1) + Bit(edges[2] < et, 2) + Bit(edges[3] < et, 4)
    + Bit(edges[4] < et, 8) + Bit(corners[1] < ct, 16) + Bit(corners[2] < ct, 32)
    + Bit(corners[3] < ct, 64) + Bit(corners[4] < ct, 128)

\* The mask composed from entry["edges"] = (n, w, e, s) and
\* entry["corners"] = (nw, ne, sw, se).
ClassifyMask(edges, corners, et, ct) ==
    LET n == EdgePresent(edges[1], et)
        w == EdgePresent(edges[2], et)
        e == EdgePresent(edges[3], et)
        s == EdgePresent(edges[4], et)
    IN Bit(n, 1) + Bit(w, 2) + Bit(e, 4) + Bit(s, 8)
       + Bit(DiagPresent(n, w, corners[1], ct), 16)
       + Bit(DiagPresent(n, e, corners[2], ct), 32)
       + Bit(DiagPresent(s, w, corners[3], ct), 64)
       + Bit(DiagPresent(s, e, corners[4], ct), 128)

\* if entry["mask"] == -1 or "edges" not in entry: continue
Skipped(entry) == entry.mask = -1 \/ ~entry.has_edges

\* sorted(results, key=lambda e: e["mask"]): the entry at position k moves
\* behind the entries of smaller mask and the earlier entries of equal mask.
SortedByMask(rs) ==
    LET rank(k) == Cardinality({j \in 1 .. Len(rs) :
                        rs[j].mask < rs[k].mask \/ (rs[j].mask = rs[k].mask /\ j < k)}) + 1
    IN [q \in 1 .. Len(rs) |-> rs[CHOOSE k \in 1 .. Len(rs) : rank(k) = q]]

\* ------------------------------------------------------------------------
\* State
\* ------------------------------------------------------------------------
VARIABLES
    nargs,             \* len(sys.argv[1:])
    si,                \* position of the for loop of __main__ (1-based)
    path,              \* the sheet path the loop is at (read when the loop gets there)
    pc,                \* where the program is
    error,             \* the uncaught exception that ended the program, or ""
    out,               \* what was printed since the last banner, one record per item
    unused,            \* locals of analyze_sheet ...
    ref_rgb,
    results,
    i,                 \* index of the entry the current loop is at
    all_qdiffs,
    threshold,
    all_edge_diffs,
    all_corner_diffs,
    edge_thresh,
    corner_thresh,
    missing,
    extra,
    duplicated

vars == <<nargs, si, path, pc, error, out, unused, ref_rgb, results, i, all_qdiffs,
          threshold, all_edge_diffs, all_corner_diffs, edge_thresh,
          corner_thresh, missing, extra, duplicated>>

locals == <<unused, ref_rgb, results, i, all_qdiffs, threshold, all_edge_diffs,
            all_corner_diffs, edge_thresh, corner_thresh, missing, extra,
            duplicated>>

\* len(sheets), sheets = sys.argv[1:] or [default]
NSheets == IF nargs = 0 THEN 1 ELSE nargs

\* The paths sheets[si] can be: the arguments are arbitrary paths, and a run
\* without arguments takes the default path.
PathsAt(n) == IF n = 0 THEN {DefaultPath} ELSE Files \cup {"missing"}

\* One printed item; `sheet` records which iteration of the main loop printed it.
Line(tag, val) == [sheet |-> si, tag |-> tag, val |-> val]

FreshLocals ==
    /\ unused = <<>>
    /\ ref_rgb = <<>>
    /\ results = <<>>
    /\ i = 0
    /\ all_qdiffs = <<>>
    /\ threshold = Unbound
    /\ all_edge_diffs = <<>>
    /\ all_corner_diffs = <<>>
    /\ edge_thresh = Unbound
    /\ corner_thresh = Unbound
    /\ missing = {}
    /\ extra = {}
    /\ duplicated = {}

Init ==
    /\ nargs \in 0 .. MaxSheets
    /\ si = 1
    /\ path = ""
    /\ pc = "main"
    /\ error = ""
    /\ out = <<>>
    /\ FreshLocals

ColOf(k) == k % COLS
RowOf(k) == k \div COLS

\* ------------------------------------------------------------------------
\* __main__
\* ------------------------------------------------------------------------
\* for s in sheets: print(banner); analyze_sheet(s)
NextSheet ==
    /\ pc = "main"
    /\ si <= NSheets
    /\ path' \in PathsAt(nargs)
    /\ out' = <<Line("banner", 0)>>
    /\ pc' = "open"
    /\ UNCHANGED <<nargs, si, error, locals>>

\* The loop is exhausted: the program ends normally.
Exit ==
    /\ pc = "main"
    /\ si > NSheets
    /\ pc' = "exit"
    /\ UNCHANGED <<nargs, si, path, error, out, locals>>

\* ------------------------------------------------------------------------
\* analyze_sheet
\* ------------------------------------------------------------------------
\* img = Image.open(path).convert("RGBA")
OpenSheet ==
    /\ pc = "open"
    /\ Readable(path)
    /\ pc' = "scan"
    /\ UNCHANGED <<nargs, si, path, error, out, locals>>

\* Image.open raises; nothing catches it, so the program ends here.
OpenFails ==
    /\ pc = "open"
    /\ ~Readable(path)
    /\ error' = "FileNotFoundError"
    /\ pc' = "crashed"
    /\ UNCHANGED <<nargs, si, path, out, locals>>

\* The last fully transparent cell in row-major order, or None (<<>>).
LastTransparent(p) ==
    LET T == {k \in CellIds : AllTransparent(get_cell(Load(p), ColOf(k), RowOf(k)))} IN
    IF T = {} THEN <<>>
    ELSE LET k == CHOOSE m \in T : \A o \in T : o <= m IN <<ColOf(k), RowOf(k)>>

ScanUnused ==
    /\ pc = "scan"
    /\ unused' = LastTransparent(path)
    /\ out' = Append(out, Line("Unused cell", unused'))
    /\ pc' = "ref"
    /\ UNCHANGED <<nargs, si, path, error, ref_rgb, results, i, all_qdiffs, threshold,
                   all_edge_diffs, all_corner_diffs, edge_thresh, corner_thresh,
                   missing, extra, duplicated>>

\* ref_cell = get_cell(1, 0); ref_rgb = ...; results = []; all_qdiffs = []
ExtractRef ==
    /\ pc = "ref"
    /\ ref_rgb' = RefRgb(get_cell(Load(path), 1, 0))
    /\ results' = <<>>
    /\ all_qdiffs' = <<>>
    /\ i' = 0
    /\ pc' = "quad"
    /\ UNCHANGED <<nargs, si, path, error, out, unused, threshold, all_edge_diffs,
                   all_corner_diffs, edge_thresh, corner_thresh, missing, extra,
                   duplicated>>

\* One iteration of the first pass over the cells.
QuadPass ==
    /\ pc = "quad"
    /\ i < NCELLS
    /\ LET col  == ColOf(i)
           row  == RowOf(i)
           cell == get_cell(Load(path), col, row)
           q    == << quadrant_diff(cell, ref_rgb, 0, 0),
                      quadrant_diff(cell, ref_rgb, HALF, 0),
                      quadrant_diff(cell, ref_rgb, 0, HALF),
                      quadrant_diff(cell, ref_rgb, HALF, HALF) >>
       IN IF AllTransparent(cell)
          THEN /\ results' = Append(results,
                     [col |-> col, row |-> row, mask |-> -1, qdiffs |-> <<0, 0, 0, 0>>,
                      has_edges |-> FALSE, edges |-> <<>>, corners |-> <<>>])
               /\ UNCHANGED all_qdiffs
          ELSE /\ results' = Append(results,
                     [col |-> col, row |-> row, mask |-> None, qdiffs |-> q,
                      has_edges |-> FALSE, edges |-> <<>>, corners |-> <<>>])
               /\ all_qdiffs' = all_qdiffs \o q
    /\ i' = i + 1
    /\ pc' = IF i + 1 = NCELLS THEN "qthresh" ELSE "quad"
    /\ UNCHANGED <<nargs, si, path, error, out, unused, ref_rgb, threshold, all_edge_diffs,
                   all_corner_diffs, edge_thresh, corner_thresh, missing, extra,
                   duplicated>>

\* The quadrant threshold and its three printed lines.  With no positive
\* quadrant diff the threshold is 100, is printed, and min(sorted_diffs)
\* of the next print raises ValueError.
QuadThreshold ==
    /\ pc = "qthresh"
    /\ \E sorted_diffs \in {Sorted(Positive(all_qdiffs))} :
       \E gap_idx \in {GapScan(sorted_diffs)} :
          IF sorted_diffs # <<>>
          THEN /\ threshold' = IF gap_idx > 0
                               THEN (PyAt(sorted_diffs, gap_idx - 1)
                                     + PyAt(sorted_diffs, gap_idx)) \div 2
                               ELSE PyAt(sorted_diffs, 0) \div 2
               /\ out' = out \o << Line("Auto threshold", threshold'),
                                   Line("Diffs range", <<PyAt(sorted_diffs, 0),
                                                         PyAt(sorted_diffs, -1)>>),
                                   Line("Gap at", <<PyAt(sorted_diffs, gap_idx - 1),
                                                    PyAt(sorted_diffs, gap_idx)>>) >>
               /\ pc' = "region"
               /\ error' = error
          ELSE /\ threshold' = DEFAULT_THRESH * Scale
               /\ out' = Append(out, Line("Auto threshold", threshold'))
               /\ error' = "ValueError"
               /\ pc' = "crashed"
    /\ i' = 0
    /\ UNCHANGED <<nargs, si, path, unused, ref_rgb, results, all_qdiffs, all_edge_diffs,
                   all_corner_diffs, edge_thresh, corner_thresh, missing, extra,
                   duplicated>>

\* The regions (x_start, y_start, x_size, y_size) of the sub_region_diff
\* calls, in the order of entry["edges"] = (n, w, e, s) and of
\* entry["corners"] = (nw, ne, sw, se).
EdgeRegions == << <<3, 0, 10, 3>>, <<0, 3, 3, 10>>, <<13, 3, 3, 10>>, <<3, 13, 10, 3>> >>
CornerRegions == << <<0, 0, 4, 4>>, <<12, 0, 4, 4>>, <<0, 12, 4, 4>>, <<12, 12, 4, 4>> >>

\* The four scores of a cell over four regions.
RegionDiffs(cell, ref, regions) ==
    << sub_region_diff(cell, ref, regions[1][1], regions[1][2], regions[1][3], regions[1][4]),
       sub_region_diff(cell, ref, regions[2][1], regions[2][2], regions[2][3], regions[2][4]),
       sub_region_diff(cell, ref, regions[3][1], regions[3][2], regions[3][3], regions[3][4]),
       sub_region_diff(cell, ref, regions[4][1], regions[4][2], regions[4][3], regions[4][4]) >>

\* One iteration of the region pass (Phase A): the eight region diffs of a
\* cell that is not marked -1; the program goes on at `cont`.
RegionStep(cont) ==
    /\ pc = "region"
    /\ i < Len(results)
    /\ LET entry == results[i + 1]
           cell  == get_cell(Load(path), entry.col, entry.row)
       IN IF entry.mask = -1
          THEN UNCHANGED results
          ELSE results' = [results EXCEPT ![i + 1] =
                 [@ EXCEPT !.has_edges = TRUE,
                           !.edges = RegionDiffs(cell, ref_rgb, EdgeRegions),
                           !.corners = RegionDiffs(cell, ref_rgb, CornerRegions)]]
    /\ i' = i + 1
    /\ pc' = cont
    /\ UNCHANGED <<nargs, si, path, error, out, unused, ref_rgb, all_qdiffs, threshold,
                   all_edge_diffs, all_corner_diffs, edge_thresh, corner_thresh,
                   missing, extra, duplicated>>

\* Variant of the region pass that leaves the loop after any iteration.
RegionPassCutShort == RegionStep("pool")

\* for entry in results: the loop ends with the last entry.
RegionPass == RegionStep(IF i + 1 = Len(results) THEN "pool" ELSE "region")

\* The entries the pooling loop does not skip.
Pooled(rs) == SelectSeq(rs, LAMBDA entry : ~Skipped(entry))

\* list.extend of the 4-tuples ts[1], ts[2], ...
Extend(ts) == [j \in 1 .. 4 * Len(ts) |-> ts[((j - 1) \div 4) + 1][((j - 1) % 4) + 1]]

\* all_edge_diffs / all_corner_diffs
PoolDiffs ==
    /\ pc = "pool"
    /\ all_edge_diffs' = Extend([k \in 1 .. Len(Pooled(results)) |-> Pooled(results)[k].edges])
    /\ all_corner_diffs' = Extend([k \in 1 .. Len(Pooled(results)) |-> Pooled(results)[k].corners])
    /\ pc' = "edge_thresh"
    /\ UNCHANGED <<nargs, si, path, error, out, unused, ref_rgb, results, i, all_qdiffs,
                   threshold, edge_thresh, corner_thresh, missing, extra, duplicated>>

\* edge_thresh = find_threshold(all_edge_diffs, "Edge")
EdgeThreshold ==
    /\ pc = "edge_thresh"
    /\ \E r \in {find_threshold(all_edge_diffs)} :
       IF r.raised = ""
       THEN /\ edge_thresh' = r.thresh
            /\ out' = Append(out, Line("Edge threshold", <<r.thresh, r.below, r.above>>))
            /\ pc' = "corner_thresh"
            /\ error' = error
       ELSE /\ error' = r.raised
            /\ pc' = "crashed"
            /\ UNCHANGED <<edge_thresh, out>>
    /\ UNCHANGED <<nargs, si, path, unused, ref_rgb, results, i, all_qdiffs, threshold,
                   all_edge_diffs, all_corner_diffs, corner_thresh, missing, extra,
                   duplicated>>

\* corner_thresh = find_threshold(all_corner_diffs, "Corner")
CornerThreshold ==
    /\ pc = "corner_thresh"
    /\ \E r \in {find_threshold(all_corner_diffs)} :
       IF r.raised = ""
       THEN /\ corner_thresh' = r.thresh
            /\ out' = Append(out, Line("Corner threshold", <<r.thresh, r.below, r.above>>))
            /\ pc' = "classify"
            /\ error' = error
       ELSE /\ error' = r.raised
            /\ pc' = "crashed"
            /\ UNCHANGED <<corner_thresh, out>>
    /\ i' = 0
    /\ UNCHANGED <<nargs, si, path, unused, ref_rgb, results, all_qdiffs, threshold,
                   all_edge_diffs, all_corner_diffs, edge_thresh, missing, extra,
                   duplicated>>

\* One iteration of the classification loop (Phase C).
Classify ==
    /\ pc = "classify"
    /\ i < Len(results)
    /\ LET entry == results[i + 1] IN
       IF Skipped(entry)
       THEN UNCHANGED results
       ELSE results' = [results EXCEPT ![i + 1].mask =
                          ClassifyMask(entry.edges, entry.corners, edge_thresh, corner_thresh)]
    /\ i' = i + 1
    /\ pc' = IF i + 1 = Len(results) THEN "grid" ELSE "classify"
    /\ UNCHANGED <<nargs, si, path, error, out, unused, ref_rgb, all_qdiffs, threshold,
                   all_edge_diffs, all_corner_diffs, edge_thresh, corner_thresh,
                   missing, extra, duplicated>>

\* What the grid shows for mask m.
GridToken(m) == IF m < 0 THEN "--" ELSE ToString(m)

\* The reconstructed grid, row by row.
PrintGrid ==
    /\ pc = "grid"
    /\ out' = Append(out, Line("grid",
                 [r \in 0 .. (ROWS - 1) |->
                    [c \in 0 .. (COLS - 1) |-> GridToken(results[r * COLS + c + 1].mask)]]))
    /\ pc' = "validate"
    /\ UNCHANGED <<nargs, si, path, error, locals>>

\* The entries with mask >= 0.
Classified(rs) == SelectSeq(rs, LAMBDA entry : entry.mask >= 0)

\* masks = [r["mask"] for r in results if r["mask"] >= 0]
MasksOf(rs) == [k \in 1 .. Len(Classified(rs)) |-> Classified(rs)[k].mask]

\* Counter(masks)[m]
CountOf(masks, m) == Cardinality({k \in 1 .. Len(masks) : masks[k] = m})

SeqRange(s) == {s[k] : k \in 1 .. Len(s)}

\* Variant of the verdict that does not look at the duplicates.
PerfectButDuplicates(mi, ex, du) == mi = {} /\ ex = {}

\* not missing and not extra and not duplicated
Perfect(mi, ex, du) == mi = {} /\ ex = {} /\ du = {}

\* The Validator: missing, extra, duplicated and the lines it prints.
Validate ==
    /\ pc = "validate"
    /\ LET masks   == MasksOf(results)
           present == SeqRange(masks)
       IN /\ missing' = expected_47 \ present
          /\ extra' = present \ expected_47
          /\ duplicated' = {<<m, CountOf(masks, m)>> : m \in {x \in present :
                                  CountOf(masks, x) > 1 /\ x >= 0}}
          /\ out' = out
                \o <<Line("Unique masks", Cardinality(present))>>
                \o (IF missing' # {} THEN <<Line("Missing", missing')>> ELSE <<>>)
                \o (IF extra' # {} THEN <<Line("Unexpected", extra')>> ELSE <<>>)
                \o (IF duplicated' # {} THEN <<Line("Duplicated", duplicated')>> ELSE <<>>)
                \o (IF Perfect(missing', extra', duplicated')
                    THEN <<Line("PERFECT", 47)>> ELSE <<>>)
    /\ pc' = "output"
    /\ UNCHANGED <<nargs, si, path, error, unused, ref_rgb, results, i, all_qdiffs, threshold,
                   all_edge_diffs, all_corner_diffs, edge_thresh, corner_thresh>>

\* Variant of the rows with row and col the other way round.
MapRowsRowCol(rs) ==
    [k \in 1 .. Len(Classified(rs)) |->
        [sheet |-> si, tag |-> "map",
         val |-> <<Classified(rs)[k].mask, Classified(rs)[k].row, Classified(rs)[k].col>>]]

\* The [mask, col, row] rows printed for the entries rs.
MapRows(rs) ==
    [k \in 1 .. Len(Classified(rs)) |->
        [sheet |-> si, tag |-> "map",
         val |-> <<Classified(rs)[k].mask, Classified(rs)[k].col, Classified(rs)[k].row>>]]

\* Output mapping, only on a perfect match.
OutputMapping ==
    /\ pc = "output"
    /\ out' = IF Perfect(missing, extra, duplicated)
              THEN out \o <<Line("Correct mapping", 0)>> \o MapRows(SortedByMask(results))
              ELSE out
    /\ pc' = "return"
    /\ UNCHANGED <<nargs, si, path, error, locals>>

\* return results: the locals die, the main loop goes on.
Return ==
    /\ pc = "return"
    /\ unused' = <<>>
    /\ ref_rgb' = <<>>
    /\ results' = <<>>
    /\ i' = 0
    /\ all_qdiffs' = <<>>
    /\ threshold' = Unbound
    /\ all_edge_diffs' = <<>>
    /\ all_corner_diffs' = <<>>
    /\ edge_thresh' = Unbound
    /\ corner_thresh' = Unbound
    /\ missing' = {}
    /\ extra' = {}
    /\ duplicated' = {}
    /\ si' = si + 1
    /\ pc' = "main"
    /\ UNCHANGED <<nargs, path, error, out>>

Next ==
    \/ NextSheet
    \/ Exit
    \/ OpenSheet
    \/ OpenFails
    \/ ScanUnused
    \/ ExtractRef
    \/ QuadPass
    \/ QuadThreshold
    \/ RegionPass
    \/ PoolDiffs
    \/ EdgeThreshold
    \/ CornerThreshold
    \/ Classify
    \/ PrintGrid
    \/ Validate
    \/ OutputMapping
    \/ Return

Spec == Init /\ [][Next]_vars

\* ------------------------------------------------------------------------
\* find_threshold on arbitrary pools: the two calls of lines 224-225 started
\* on every pair of an edge pool of at most MaxPool samples and a corner
\* pool of at most MaxCorner samples, the scores total / count of a 10x3
\* strip and of a 4x4 block for the totals 0 .. MaxDiff.
\* ------------------------------------------------------------------------
PoolsOf(count, longest) ==
    UNION {[1 .. n -> {Ratio(total, count) : total \in 0 .. MaxDiff}] : n \in 0 .. longest}

\* The pools of whole-number samples 0 .. MaxDiff.
Pools == PoolsOf(1, MaxPool)

InitThreshold ==
    /\ nargs = 1
    /\ si = 1
    /\ path = "planted"
    /\ pc = "edge_thresh"
    /\ error = ""
    /\ out = <<>>
    /\ unused = <<>>
    /\ ref_rgb = <<>>
    /\ results = <<>>
    /\ i = 0
    /\ all_qdiffs = <<>>
    /\ threshold = Unbound
    /\ all_edge_diffs \in PoolsOf(10 * 3, MaxPool)
    /\ all_corner_diffs \in PoolsOf(4 * 4, MaxCorner)
    /\ edge_thresh = Unbound
    /\ corner_thresh = Unbound
    /\ missing = {}
    /\ extra = {}
    /\ duplicated = {}

NextThreshold ==
    \/ EdgeThreshold
    \/ CornerThreshold

SpecThreshold == InitThreshold /\ [][NextThreshold]_vars

\* ------------------------------------------------------------------------
\* find_threshold on a pool and on the same pool with one sample moved by
\* one unit (1.0): the first call of lines 224-225 gets the pool, the
\* second call the perturbed pool.  Samples stay >= 0, as diffs are.
\* ------------------------------------------------------------------------
Perturbed(pool) ==
    {q \in {[pool EXCEPT ![j] = @ + (sgn * Scale)] : j \in 1 .. Len(pool), sgn \in {-1, 1}} :
        \A k \in 1 .. Len(q) : q[k] >= 0}

InitPerturb ==
    /\ nargs = 1
    /\ si = 1
    /\ path = "planted"
    /\ pc = "edge_thresh"
    /\ error = ""
    /\ out = <<>>
    /\ unused = <<>>
    /\ ref_rgb = <<>>
    /\ results = <<>>
    /\ i = 0
    /\ all_qdiffs = <<>>
    /\ threshold = Unbound
    /\ all_edge_diffs \in Pools
    /\ all_corner_diffs \in Perturbed(all_edge_diffs)
    /\ edge_thresh = Unbound
    /\ corner_thresh = Unbound
    /\ missing = {}
    /\ extra = {}
    /\ duplicated = {}

SpecPerturb == InitPerturb /\ [][NextThreshold]_vars

\* ========================================================================
\* Properties
\* ========================================================================
HasMaskBit(m, b) == (m \div b) % 2 = 1

\* The entries that hold a recovered mask.
Recovered == {k \in 1 .. Len(results) : results[k].mask >= 0}

\* C1: every recovered mask (mask >= 0) that has a diagonal bit also has
\* both flanking cardinal bits: NW(16) needs N(1) and W(2), NE(32) needs
\* N(1) and E(4), SW(64) needs S(8) and W(2), SE(128) needs S(8) and E(4).
C1_DiagonalNeedsCardinals ==
    \A k \in Recovered :
        LET m == results[k].mask IN
        /\ HasMaskBit(m, 16) => (HasMaskBit(m, 1) /\ HasMaskBit(m, 2))
        /\ HasMaskBit(m, 32) => (HasMaskBit(m, 1) /\ HasMaskBit(m, 4))
        /\ HasMaskBit(m, 64) => (HasMaskBit(m, 8) /\ HasMaskBit(m, 2))
        /\ HasMaskBit(m, 128) => (HasMaskBit(m, 8) /\ HasMaskBit(m, 4))

\* A sheet is classified in which one cell got a diagonal bit and another
\* cell has a NE corner that matches the reference (corner diff below the
\* corner threshold) next to a North edge that does not.
C1_Witness ==
    /\ pc = "grid"
    /\ \E k \in Recovered : HasMaskBit(results[k].mask, 16)
    /\ \E k \in Recovered :
          /\ results[k].corners[2] < corner_thresh
          /\ results[k].edges[1] >= edge_thresh
          /\ ~HasMaskBit(results[k].mask, 32)

\* The distinct values of a pool.
Values(pool) == {pool[k] : k \in 1 .. Len(pool)}

\* a < b are neighbours in the ascending order of the pool.
Adjacent(pool, a, b) ==
    /\ a \in Values(pool)
    /\ b \in Values(pool)
    /\ a < b
    /\ \A v \in Values(pool) : ~(a < v /\ v < b)

\* The difference b - a of two samples a <= b, as the doubles give it.
Difference(a, b) == FSub(Double(b), Double(a))

\* (a,b) is the lowest of the adjacent pairs of the pool with the widest gap.
WidestLowest(pool, a, b) ==
    /\ Adjacent(pool, a, b)
    /\ LET widest == Difference(a, b) IN
       \A c, d \in Values(pool) :
          Adjacent(pool, c, d) =>
              LET gap == Difference(c, d) IN
              FLess(gap, widest) \/ (gap = widest /\ a <= c)

\* thresh is the midpoint of that pair; it separates the pool.
MidpointOfWidestGap(pool, thresh) ==
    \E a, b \in Values(pool) :
        /\ 2 * thresh = a + b
        /\ a < thresh /\ thresh < b
        /\ \A v \in Values(pool) : v <= a \/ v >= b
        /\ WidestLowest(pool, a, b)

\* C3: for a pool with at least two distinct values, find_threshold gives
\* the midpoint (a+b)/2 of the adjacent pair a < b of the sorted pool with
\* the largest gap (the lowest such pair on a tie), so a < threshold < b and
\* every sample is <= a or >= b; the edge threshold is that of the edge
\* pool and the corner threshold that of the corner pool, whatever the
\* other pool is.  The gap of a pair is the difference b - a of the two
\* floats, and two gaps tie when those differences are equal: 0 | 1/30 |
\* 2/30 ties, 1/30 | 2/30 | 3/30 does not (the upper difference is
\* 0.03333333333333334, the lower 0.03333333333333333).
C3_MidpointOfLargestGap ==
    /\ (edge_thresh # Unbound /\ Cardinality(Values(all_edge_diffs)) >= 2)
          => MidpointOfWidestGap(all_edge_diffs, edge_thresh)
    /\ (corner_thresh # Unbound /\ Cardinality(Values(all_corner_diffs)) >= 2)
          => MidpointOfWidestGap(all_corner_diffs, corner_thresh)

\* Both thresholds are computed.  The edge pool is 1/30 | 2/30 | 3/30: the
\* two gaps are equal fractions, the upper difference is the greater float,
\* and the threshold is the midpoint 2.5/30 of the upper pair.  The corner
\* pool holds two values and its threshold is another one.
C3_Witness ==
    /\ edge_thresh # Unbound
    /\ corner_thresh # Unbound
    /\ Values(all_edge_diffs) = {Ratio(1, 30), Ratio(2, 30), Ratio(3, 30)}
    /\ FLess(Difference(Ratio(1, 30), Ratio(2, 30)), Difference(Ratio(2, 30), Ratio(3, 30)))
    /\ 2 * edge_thresh = Ratio(5, 30)
    /\ Cardinality(Values(all_corner_diffs)) = 2
    /\ corner_thresh # edge_thresh

\* The case of scenario A at entry k: the North edge deviates, the three
\* other edges and the four corners match the reference.
NorthOnly(k) ==
    /\ results[k].mask >= 0
    /\ results[k].edges[1] > edge_thresh
    /\ \A j \in 2 .. 4 : results[k].edges[j] < edge_thresh
    /\ \A j \in 1 .. 4 : results[k].corners[j] < corner_thresh

\* C4 (as the code has it): a cell that deviates from the reference on its
\* North edge only gets N(1) cleared and with it NW(16) and NE(32), the two
\* diagonals that N flanks: mask 206 = W + E + S + SW + SE.
C4_NorthMissing ==
    \A k \in 1 .. Len(results) : NorthOnly(k) => results[k].mask = 206

\* C4 as stated: the same cell gets the full mask minus N, 254.
C4_AsStated ==
    \A k \in 1 .. Len(results) : NorthOnly(k) => results[k].mask = 254

\* The cell at (0,0) is such a cell and has been classified.
C4_Witness ==
    /\ Len(results) = NCELLS
    /\ NorthOnly(1)
    /\ results[1].mask = 206

\* The place of a program point in the order of the phases of one sheet.
PhaseRank(p) ==
    CASE p = "main" -> 0
      [] p = "open" -> 1
      [] p = "scan" -> 2
      [] p = "ref" -> 3
      [] p = "quad" -> 4
      [] p = "qthresh" -> 5
      [] p = "region" -> 6
      [] p = "pool" -> 7
      [] p = "edge_thresh" -> 8
      [] p = "corner_thresh" -> 9
      [] p = "classify" -> 10
      [] p = "grid" -> 11
      [] p = "validate" -> 12
      [] p = "output" -> 13
      [] p = "return" -> 14
      [] OTHER -> 15

\* How many lines with this tag the current sheet has printed.
Printed(tag) == Cardinality({j \in 1 .. Len(out) : out[j].tag = tag})

\* Phase A is complete: every cell has its entry, every entry of a
\* non-empty cell its eight region diffs, and the pools hold them all.
RegionsPooled ==
    /\ Len(results) = NCELLS
    /\ \A k \in 1 .. Len(results) :
          results[k].mask # -1 =>
              /\ results[k].has_edges
              /\ Len(results[k].edges) = 4
              /\ Len(results[k].corners) = 4
    /\ Len(all_edge_diffs) = 4 * Cardinality({k \in 1 .. Len(results) : results[k].mask # -1})
    /\ Len(all_corner_diffs) = Len(all_edge_diffs)

\* C2: within a sheet the phases run in a fixed order with barriers: the
\* edge and the corner threshold are each computed exactly once, only
\* after the eight region diffs of every non-empty cell are computed and
\* pooled; no cell has a mask >= 0 before both thresholds exist; no phase
\* goes back to an earlier one.
C2_PhaseBarriers ==
    /\ [](edge_thresh # Unbound => RegionsPooled)
    /\ [](corner_thresh # Unbound => (RegionsPooled /\ edge_thresh # Unbound))
    /\ [](Recovered # {} => (edge_thresh # Unbound /\ corner_thresh # Unbound))
    /\ [](PhaseRank(pc) \in 1 .. 14 =>
              /\ Printed("Edge threshold") = (IF edge_thresh # Unbound THEN 1 ELSE 0)
              /\ Printed("Corner threshold") = (IF corner_thresh # Unbound THEN 1 ELSE 0))
    /\ [][(pc # "return" /\ edge_thresh # Unbound) => edge_thresh' = edge_thresh]_vars
    /\ [][(pc # "return" /\ corner_thresh # Unbound) => corner_thresh' = corner_thresh]_vars
    /\ [][pc # "return" => PhaseRank(pc') >= PhaseRank(pc)]_vars

\* The classification of a sheet with 47 non-empty cells is complete, after
\* one computation of each threshold.
C2_Witness ==
    /\ pc = "grid"
    /\ Cardinality(Recovered) = NCELLS - 1
    /\ Printed("Edge threshold") = 1
    /\ Printed("Corner threshold") = 1
    /\ RegionsPooled

\* The mapping table of the current sheet has been printed.
Emitted == Printed("Correct mapping") > 0

\* Its rows, in the order printed.
TableRows == SelectSeq(out, LAMBDA l : l.tag = "map")

\* C5: the [mask, col, row] table is printed if and only if no canonical
\* mask is unobserved, no observed mask is non-canonical and no mask is
\* observed at two cells; when printed it lists each of the 47 canonical
\* masks once, in ascending order, each with the (col,row) of the cell
\* classified to it, and has no row for a cell with mask -1.
C5_TableIffPerfect ==
    /\ PhaseRank(pc) \in 1 .. 13 => (~Emitted /\ TableRows = <<>>)
    /\ pc = "return" =>
          /\ Emitted <=>
                /\ \A m \in expected_47 : \E k \in Recovered : results[k].mask = m
                /\ \A k \in Recovered : results[k].mask \in expected_47
                /\ \A k1, k2 \in Recovered : results[k1].mask = results[k2].mask => k1 = k2
          /\ ~Emitted => TableRows = <<>>
          /\ Emitted =>
                /\ Len(TableRows) = 47
                /\ {TableRows[j].val[1] : j \in 1 .. Len(TableRows)} = expected_47
                /\ \A j \in 1 .. (Len(TableRows) - 1) :
                      TableRows[j].val[1] < TableRows[j + 1].val[1]
                /\ \A j \in 1 .. Len(TableRows) :
                      /\ TableRows[j].val[1] >= 0
                      /\ \E k \in Recovered :
                            TableRows[j].val = <<results[k].mask, results[k].col, results[k].row>>

\* A sheet has come through with its table of 47 rows printed.
C5_Witness ==
    /\ pc = "return"
    /\ Emitted
    /\ Len(TableRows) = 47
    /\ TableRows[2].val = <<1, 2, 0>>

\* Cell k (row-major, from 0) of the sheet at p has alpha < 128 everywhere.
CellTransparent(p, k) ==
    \A X \in (ColOf(k) * TILE) .. (ColOf(k) * TILE + TILE - 1),
       Y \in (RowOf(k) * TILE) .. (RowOf(k) * TILE + TILE - 1) :
          Load(p)[X][Y][4] < ALPHA_MIN

\* The printed grid.
Grid == out[CHOOSE j \in 1 .. Len(out) : out[j].tag = "grid"].val

\* C6: a cell whose 256 pixels all have alpha < 128 gets mask -1; an entry
\* with mask -1 gives no sample to the edge pool or the corner pool, is
\* never classified (its mask is -1 to the end), shows as the placeholder
\* in the grid and is not counted by the Validator.
C6_UnusedExcluded ==
    /\ \A k \in 1 .. Len(results) :
          results[k].mask = -1 =>
              (~results[k].has_edges /\ results[k].edges = <<>> /\ results[k].corners = <<>>)
    /\ pc = "return" =>
          /\ \A k \in CellIds : CellTransparent(path, k) => results[k + 1].mask = -1
          /\ Len(all_edge_diffs)
                = 4 * Cardinality({k \in CellIds : ~CellTransparent(path, k)})
          /\ Len(all_corner_diffs) = Len(all_edge_diffs)
          /\ \A k \in 1 .. Len(results) :
                results[k].mask = -1 => Grid[results[k].row][results[k].col] = "--"
          /\ \A e \in extra : e >= 0
          /\ \A d \in duplicated : d[1] >= 0
          /\ Cardinality(missing) >= Cardinality(expected_47) - Cardinality(Recovered)
          /\ Printed("Unique masks") = 1
          /\ \A j \in 1 .. Len(out) :
                out[j].tag = "Unique masks" =>
                    out[j].val = Cardinality({results[k].mask : k \in Recovered})

\* A sheet with a transparent cell of alpha 64 and one of alpha 0 has come
\* through; both are marked -1.
C6_Witness ==
    /\ pc = "return"
    /\ Load(path)[COLS * TILE - 1][ROWS * TILE - 1][4] = 64
    /\ CellTransparent(path, NCELLS - 1)
    /\ results[NCELLS].mask = -1
    /\ Cardinality({k \in 1 .. Len(results) : results[k].mask = -1}) = 2

\* C7 as stated: threshold discovery never raises; on a readable sheet the
\* run gets to the validation report whatever the diff pools hold.
C7_NeverRaises ==
    Readable(path) => ~(pc = "crashed" /\ error \in {"ValueError", "IndexError"})

\* Only the reference cell (1,0) of the sheet at p is drawn.
OnlyReference(p) == \A k \in CellIds : CellTransparent(p, k) <=> k # 1

\* C8 as stated: on a sheet whose only non-transparent cell is the reference
\* cell the run gets to the Validator, which finds at least 45 masks
\* missing, none extra and none duplicated.
C8_ReferenceOnly ==
    (pc \in {"crashed", "return"} /\ Readable(path) /\ OnlyReference(path)) =>
        /\ pc = "return"
        /\ Cardinality(missing) >= 45
        /\ extra = {}
        /\ duplicated = {}

\* C9 as stated: when the reference cell (1,0) is transparent the analysis
\* of the sheet ends with a ConfigurationError before any diff is computed:
\* no threshold, no classified cell, no validation report, no table.
C9_TransparentReference ==
    (PhaseRank(pc) >= 4 /\ Readable(path) /\ CellTransparent(path, 1)) =>
        /\ pc = "crashed" => error = "ConfigurationError"
        /\ all_qdiffs = <<>>
        /\ threshold = Unbound
        /\ edge_thresh = Unbound
        /\ corner_thresh = Unbound
        /\ Recovered = {}
        /\ Printed("Unique masks") = 0

\* C10 as stated: an unreadable sheet fails alone; the sheets after it on
\* the command line are still processed.
C10_LaterSheetsProcessed ==
    ~(pc = "crashed" /\ ~Readable(path) /\ si < NSheets)

\* The (mask, col, row) triples planted in the two synthetic sheets.
PlantedTruth(p) ==
    IF p = "planted"
    THEN {<<PlantedMasks[c + 1], ColOf(c), RowOf(c)>> : c \in 0 .. (NCELLS - 2)}
    ELSE {<<255, 1, 0>>, <<0, COLS - 1, ROWS - 1>>}
         \cup {<<PlantedMasks[NCELLS + 1 - c], ColOf(c), RowOf(c)>> : c \in 2 .. (NCELLS - 2)}

\* C11: round trip.  For a synthetic sheet with each of the 47 canonical
\* masks at a distinct cell (255 at (1,0), one transparent spare cell),
\* edges and corners drawn in the reference colour when present and in a
\* distinct colour when absent, the Validator finds nothing missing,
\* nothing extra and nothing duplicated, and the printed table is the
\* planted (mask, col, row) assignment.
C11_RoundTrip ==
    (pc = "return" /\ path \in {"planted", "plantedB"}) =>
        /\ missing = {}
        /\ extra = {}
        /\ duplicated = {}
        /\ Printed("PERFECT") = 1
        /\ Emitted
        /\ Len(TableRows) = NCELLS - 1
        /\ {TableRows[j].val : j \in 1 .. Len(TableRows)} = PlantedTruth(path)

\* The second arrangement has come through: its table starts with mask 0
\* at (11,3) and ends with mask 255 at (1,0).
C11_Witness ==
    /\ pc = "return"
    /\ path = "plantedB"
    /\ Len(TableRows) = NCELLS - 1
    /\ TableRows[1].val = <<0, 11, 3>>
    /\ TableRows[2].val = <<1, 10, 3>>
    /\ TableRows[NCELLS - 1].val = <<255, 1, 0>>

\* Sample j of the pool has neither of the two values that bound the
\* widest gap of the pool.
OffTheGap(pool, j) ==
    \E a, b \in Values(pool) :
        WidestLowest(pool, a, b) /\ pool[j] # a /\ pool[j] # b

\* The corner pool is the edge pool with sample j moved by one unit.
MovedAt(j) ==
    /\ Len(all_corner_diffs) = Len(all_edge_diffs)
    /\ j \in 1 .. Len(all_edge_diffs)
    /\ \A k \in 1 .. Len(all_edge_diffs) :
          IF k = j
          THEN all_corner_diffs[k] - all_edge_diffs[k] \in {-Scale, Scale}
          ELSE all_corner_diffs[k] = all_edge_diffs[k]

\* C12 as stated: for a pool with a positive largest gap, moving by one
\* unit a single sample that is neither of the two samples bounding the
\* largest gap leaves the threshold of find_threshold unchanged.  (The
\* sample is taken here to differ in value from both bounds, the reading
\* most favourable to the statement.)
C12_PerturbationKeepsThreshold ==
    (edge_thresh # Unbound /\ corner_thresh # Unbound) =>
        \A j \in 1 .. Len(all_edge_diffs) :
            (MovedAt(j) /\ OffTheGap(all_edge_diffs, j)) => corner_thresh = edge_thresh

\* The pixel offsets (idx = py * TILE + px) a region's score is taken over.
RegionPixels(r) ==
    {(r[2] + dy) * TILE + (r[1] + dx) : dx \in 0 .. (r[3] - 1), dy \in 0 .. (r[4] - 1)}

\* The pixel offsets at which the cell of entry k differs from the
\* reference cell (1,0).
DiffersFromReference(k) ==
    {idx \in 0 .. (TILE * TILE - 1) :
        Load(path)[results[k].col * TILE + (idx % TILE)][results[k].row * TILE + (idx \div TILE)]
            # Load(path)[TILE + (idx % TILE)][idx \div TILE]}

\* The eight region scores of entry k.
Scores(k) == results[k].edges \o results[k].corners

\* C13 as stated: no edge strip shares a pixel with a 4x4 corner block, so
\* a cell that differs from another cell (here the reference cell) in one
\* pixel differs from it in at most one of the eight region scores.
C13_RegionsDisjoint ==
    pc = "pool" =>
        /\ \A k \in 1 .. Len(results) :
              (results[k].has_edges /\ results[2].has_edges
               /\ Cardinality(DiffersFromReference(k)) = 1)
                  => Cardinality({j \in 1 .. 8 : Scores(k)[j] # Scores(2)[j]}) <= 1
        /\ \A e, c \in 1 .. 4 :
              RegionPixels(EdgeRegions[e]) \cap RegionPixels(CornerRegions[c]) = {}

\* m obeys the rule that a diagonal needs both its cardinals, with
\* N=1 W=2 E=4 S=8 NW=16 NE=32 SW=64 SE=128.
RuleMask(m) ==
    /\ HasMaskBit(m, 16) => (HasMaskBit(m, 1) /\ HasMaskBit(m, 2))
    /\ HasMaskBit(m, 32) => (HasMaskBit(m, 1) /\ HasMaskBit(m, 4))
    /\ HasMaskBit(m, 64) => (HasMaskBit(m, 8) /\ HasMaskBit(m, 2))
    /\ HasMaskBit(m, 128) => (HasMaskBit(m, 8) /\ HasMaskBit(m, 4))

\* C14: the canonical mask constant has exactly 47 elements and is the set
\* of all m in 0..255 that obey the diagonal-needs-both-cardinals rule: no
\* valid combination is absent and no member breaks the rule (looked at
\* where the Validator compares the observed masks with the constant).
C14_CanonicalSet ==
    pc \in {"validate", "output"} =>
        /\ Cardinality(expected_47) = 47
        /\ expected_47 = {m \in 0 .. 255 : RuleMask(m)}
        /\ \A m \in missing : m \in 0 .. 255 /\ RuleMask(m)

\* The Validator has compared a sheet with the constant and found each of
\* the rule-obeying masks, and nothing else, observed.
C14_Witness ==
    /\ pc = "output"
    /\ missing = {}
    /\ extra = {}
    /\ {results[k].mask : k \in Recovered} = {m \in 0 .. 255 : RuleMask(m)}

\* C15: on every sheet the Validator's extra set is empty, because every
\* mask the classifier can give a non-empty cell is one of the 47
\* canonical masks; a validation fails by missing or duplicated masks only.
\* (The second part takes, for the thresholds of the sheet, every way the
\* eight diffs of a cell can lie below or not below them.)
C15_NoUnexpectedMask ==
    /\ extra = {}
    /\ Printed("Unexpected") = 0
    /\ \A k \in Recovered : results[k].mask \in expected_47
    /\ (pc = "classify" /\ i = 0) =>
          \A edges \in [1 .. 4 -> {edge_thresh - 1, edge_thresh}],
             corners \in [1 .. 4 -> {corner_thresh - 1, corner_thresh}] :
                ClassifyMask(edges, corners, edge_thresh, corner_thresh) \in expected_47

\* A sheet with a cell whose NW corner matches the reference while its
\* North edge does not has been validated: masks are missing and
\* duplicated, none is unexpected.
C15_Witness ==
    /\ pc = "return"
    /\ \E k \in Recovered :
          results[k].corners[1] < corner_thresh /\ results[k].edges[1] >= edge_thresh
    /\ missing # {}
    /\ duplicated # {}
    /\ extra = {}

\* C16: when every sample of the edge pool has the same value v >= 0, the
\* edge threshold is v/2, no edge diff is strictly below it and every
\* non-empty cell gets mask 0, no cardinal and no diagonal bit; a fully
\* opaque reference cell, whose eight diffs are 0, is then classified 0 and
\* not 255.  The reference cell is classified 255 only when both
\* thresholds are strictly positive.
C16_FlatEdgePool ==
    /\ (PhaseRank(pc) \in 11 .. 14 /\ Cardinality(Values(all_edge_diffs)) = 1) =>
          /\ \A v \in Values(all_edge_diffs) : v >= 0 /\ 2 * edge_thresh = v
          /\ \A j \in 1 .. Len(all_edge_diffs) : ~(all_edge_diffs[j] < edge_thresh)
          /\ \A k \in 1 .. Len(results) : results[k].mask # -1 => results[k].mask = 0
    /\ (Len(results) >= 2 /\ results[2].mask = 255) =>
          (edge_thresh > 0 /\ corner_thresh > 0)

\* A sheet whose edge diffs are all 0 has been classified: the threshold
\* is 0 and the opaque reference cell at (1,0), all of whose diffs are 0,
\* has mask 0.
C16_Witness ==
    /\ pc = "grid"
    /\ Values(all_edge_diffs) = {0}
    /\ edge_thresh = 0
    /\ results[2].edges = <<0, 0, 0, 0>>
    /\ results[2].corners = <<0, 0, 0, 0>>
    /\ results[2].mask = 0
    /\ Cardinality(Recovered) = 2

====
